---- MODULE Spec2Model ----
(***************************************************************************)
(* Layered configuration loading (config.py), the Config model (models.py) *)
(* and the file-processing stub (core.py) of the {project} template.       *)
(*                                                                         *)
(* Python values are tagged records; a str is a sequence of one-character  *)
(* strings, so that lower(), int() and newline translation are computed    *)
(* character by character; a dict is a function whose DOMAIN is its keys.  *)
(***************************************************************************)
EXTENDS Integers, Sequences, FiniteSets, TLC

VARIABLES
    pc,             \* position of the call under study
    defaultFile,    \* config/default.toml
    localFile,      \* config/local.toml
    environ,        \* os.environ (POSIX: names are case-sensitive)
    cli_overrides,  \* **cli_overrides of load_config
    outcome,        \* what load_config returned or raised
    base,           \* merge_dicts argument
    override,       \* merge_dicts argument
    merged,         \* merge_dicts result
    path,           \* the file system entry process_file is pointed at
    config,         \* the Config handed to process_file
    stdout,         \* lines printed by process_file
    returned        \* what process_file returned or raised

vars == <<pc, defaultFile, localFile, environ, cli_overrides, outcome,
          base, override, merged, path, config, stdout, returned>>

---------------------------------------------------------------------------
(* Python / TOML values *)

PyBool(b) == [t |-> "bool", b |-> b]
PyInt(i) == [t |-> "int", i |-> i]
PyStr(s) == [t |-> "str", s |-> s]
PyList(l) == [t |-> "list", l |-> l]
PyDict(m) == [t |-> "dict", m |-> m]
PyNone == [t |-> "none"]

EmptyDict == <<>>

\* d[k] = v on a dict
SetItem(d, k, v) == [j \in DOMAIN d \cup {k} |-> IF j = k THEN v ELSE d[j]]

\* outcomes of a call: a returned value or a raised exception
Returned(v) == [kind |-> "return", value |-> v]
Raised(e) == [kind |-> "raise", error |-> e, fields |-> {}]
RaisedAt(e, fs) == [kind |-> "raise", error |-> e, fields |-> fs]
NotCalled == [kind |-> "none"]

---------------------------------------------------------------------------
(* str.lower(), int(str) *)

UpperLetters == <<"A", "B", "C", "D", "E", "F", "G", "H", "I", "J", "K", "L", "M",
                  "N", "O", "P", "Q", "R", "S", "T", "U", "V", "W", "X", "Y", "Z">>
LowerLetters == <<"a", "b", "c", "d", "e", "f", "g", "h", "i", "j", "k", "l", "m",
                  "n", "o", "p", "q", "r", "s", "t", "u", "v", "w", "x", "y", "z">>

LowerChar(c) ==
    IF \E n \in DOMAIN UpperLetters : UpperLetters[n] = c
    THEN LowerLetters[CHOOSE n \in DOMAIN UpperLetters : UpperLetters[n] = c]
    ELSE c

\* value.lower()
Lower(s) == [n \in DOMAIN s |-> LowerChar(s[n])]

Digits == <<"0", "1", "2", "3", "4", "5", "6", "7", "8", "9">>
IsDigit(c) == \E n \in DOMAIN Digits : Digits[n] = c
DigitValue(c) == (CHOOSE n \in DOMAIN Digits : Digits[n] = c) - 1

RECURSIVE Strip(_)
\* str.strip() of blanks, as int() does before parsing
Strip(s) ==
    IF s = <<>> THEN s
    ELSE IF Head(s) = " " THEN Strip(Tail(s))
    ELSE IF s[Len(s)] = " " THEN Strip(SubSeq(s, 1, Len(s) - 1))
    ELSE s

RECURSIVE DigitsValue(_)
DigitsValue(s) ==
    IF s = <<>> THEN 0
    ELSE 10 * DigitsValue(SubSeq(s, 1, Len(s) - 1)) + DigitValue(s[Len(s)])

AllDigits(s) == s # <<>> /\ \A n \in DOMAIN s : IsDigit(s[n])

\* int(value): blanks stripped, an optional sign, then decimal digits;
\* anything else raises ValueError
IsIntLiteral(s) ==
    LET b == Strip(s) IN
    /\ b # <<>>
    /\ IF Head(b) \in {"+", "-"} THEN AllDigits(Tail(b)) ELSE AllDigits(b)

IntOf(s) ==
    LET b == Strip(s) IN
    IF Head(b) = "-" THEN 0 - DigitsValue(Tail(b))
    ELSE IF Head(b) = "+" THEN DigitsValue(Tail(b))
    ELSE DigitsValue(b)

---------------------------------------------------------------------------
(* config.py *)

\* a file of the config directory: missing, or holding text that tomllib
\* parses to a document (a dict) or rejects
NoFile == [exists |-> FALSE]
TomlFile(doc) == [exists |-> TRUE, parses |-> TRUE, doc |-> doc]
BadTomlFile == [exists |-> TRUE, parses |-> FALSE]

\* load_toml without the path.exists() test
load_toml_strict(f) ==
    IF ~f.exists THEN Raised("FileNotFoundError")
    ELSE IF ~f.parses THEN Raised("TOMLDecodeError")
    ELSE Returned(f.doc)

load_toml(f) ==
    IF ~f.exists THEN Returned(EmptyDict)
    ELSE IF ~f.parses THEN Raised("TOMLDecodeError")
    ELSE Returned(f.doc)

RECURSIVE merge_dicts_keep_base(_, _)
\* merge_dicts in which a key of base is not replaced
merge_dicts_keep_base(b, o) ==
    [key \in DOMAIN b \cup DOMAIN o |->
        IF key \notin DOMAIN o THEN b[key]
        ELSE IF key \notin DOMAIN b THEN o[key]
        ELSE IF b[key].t = "dict" /\ o[key].t = "dict"
             THEN PyDict(merge_dicts_keep_base(b[key].m, o[key].m))
             ELSE b[key]]

\* merge_dicts as dict.update: no recursion into nested dicts
merge_dicts_shallow(b, o) ==
    [key \in DOMAIN b \cup DOMAIN o |->
        IF key \in DOMAIN o THEN o[key] ELSE b[key]]

RECURSIVE merge_dicts(_, _)
merge_dicts(b, o) ==
    [key \in DOMAIN b \cup DOMAIN o |->
        IF key \notin DOMAIN o THEN b[key]
        ELSE IF key \in DOMAIN b /\ b[key].t = "dict" /\ o[key].t = "dict"
             THEN PyDict(merge_dicts(b[key].m, o[key].m))
             ELSE o[key]]

\* env_prefix = "{PROJECT}_".upper()
env_prefix == "{PROJECT}_"

\* key.upper() for the keys the loop of load_config iterates
KeyUpper(key) == CASE key = "verbose" -> "VERBOSE"
                   [] key = "timeout" -> "TIMEOUT"

\* the environment name built without upper()
EnvKeyAsIs(key) == env_prefix \o key

\* env_key = f"{env_prefix}{key.upper()}"
EnvKey(key) == env_prefix \o KeyUpper(key)

\* ("1", "true", "yes")
VerboseWords == {<<"1">>, <<"t", "r", "u", "e">>, <<"y", "e", "s">>}

\* the membership test without lower()
EnvVerboseCased(value) == value \in VerboseWords

\* value.lower() in ("1", "true", "yes")
EnvVerbose(value) == Lower(value) \in VerboseWords

\* config_data[key] = v: a TypeError unless config_data is a dict
Assign(data, key, v) ==
    IF data.t # "dict" THEN Raised("TypeError")
    ELSE Returned(PyDict(SetItem(data.m, key, v)))

\* the loop round with a malformed timeout skipped instead of raised
ApplyEnvKeyLenient(data, env, key) ==
    IF EnvKey(key) \notin DOMAIN env THEN Returned(data)
    ELSE LET value == env[EnvKey(key)] IN
         IF key = "verbose" THEN Assign(data, key, PyBool(EnvVerbose(value)))
         ELSE IF ~IsIntLiteral(value) THEN Returned(data)
         ELSE Assign(data, key, PyInt(IntOf(value)))

\* one round of the loop over ["verbose", "timeout"]
ApplyEnvKey(data, env, key) ==
    IF EnvKey(key) \notin DOMAIN env THEN Returned(data)
    ELSE LET value == env[EnvKey(key)] IN
         IF key = "verbose" THEN Assign(data, key, PyBool(EnvVerbose(value)))
         ELSE IF ~IsIntLiteral(value) THEN Raised("ValueError")
         ELSE Assign(data, key, PyInt(IntOf(value)))

\* the loop applying environment variable overrides
ApplyEnv(data, env) ==
    LET v == ApplyEnvKey(data, env, "verbose") IN
    IF v.kind = "raise" THEN v ELSE ApplyEnvKey(v.value, env, "timeout")

\* the loop without the "is not None" test
ApplyCliAll(data, cli) ==
    IF DOMAIN cli = {} THEN Returned(data)
    ELSE IF data.t # "dict" THEN Raised("TypeError")
    ELSE Returned(PyDict([key \in DOMAIN data.m \cup DOMAIN cli |->
                            IF key \in DOMAIN cli THEN cli[key] ELSE data.m[key]]))

\* the loop applying CLI overrides: only values that are not None are set
ApplyCli(data, cli) ==
    LET given == {key \in DOMAIN cli : cli[key] # PyNone} IN
    IF given = {} THEN Returned(data)
    ELSE IF data.t # "dict" THEN Raised("TypeError")
    ELSE Returned(PyDict([key \in DOMAIN data.m \cup given |->
                            IF key \in given THEN cli[key] ELSE data.m[key]]))

---------------------------------------------------------------------------
(* models.py: Config(BaseModel), validated by pydantic in its default      *)
(* (lax) mode, extra keys ignored                                          *)

DefaultVerbose == FALSE
DefaultTimeout == 30
DefaultTags == <<>>

Valid(v) == [ok |-> TRUE, value |-> v]
Invalid == [ok |-> FALSE]

BoolTrueWords == {<<"1">>, <<"o", "n">>, <<"t">>, <<"t", "r", "u", "e">>,
                  <<"y">>, <<"y", "e", "s">>}
BoolFalseWords == {<<"0">>, <<"o", "f", "f">>, <<"f">>, <<"f", "a", "l", "s", "e">>,
                   <<"n">>, <<"n", "o">>}

\* verbose: bool
ValidateBool(v) ==
    CASE v.t = "bool" -> Valid(v.b)
      [] v.t = "int" -> IF v.i \in {0, 1} THEN Valid(v.i = 1) ELSE Invalid
      [] v.t = "str" -> IF Lower(v.s) \in BoolTrueWords THEN Valid(TRUE)
                        ELSE IF Lower(v.s) \in BoolFalseWords THEN Valid(FALSE)
                        ELSE Invalid
      [] OTHER -> Invalid

\* timeout validated strictly: only an int is an int
ValidateIntStrict(v) == IF v.t = "int" THEN Valid(v.i) ELSE Invalid

\* timeout: int
ValidateInt(v) ==
    CASE v.t = "int" -> Valid(v.i)
      [] v.t = "bool" -> Valid(IF v.b THEN 1 ELSE 0)
      [] v.t = "str" -> IF IsIntLiteral(v.s) THEN Valid(IntOf(v.s)) ELSE Invalid
      [] OTHER -> Invalid

\* tags: list[str]
ValidateTags(v) ==
    IF v.t = "list" /\ \A n \in DOMAIN v.l : v.l[n].t = "str"
    THEN Valid([n \in DOMAIN v.l |-> v.l[n].s])
    ELSE Invalid

ConfigFields == {"verbose", "timeout", "tags"}

FieldDefault(f) == CASE f = "verbose" -> Valid(DefaultVerbose)
                     [] f = "timeout" -> Valid(DefaultTimeout)
                     [] f = "tags" -> Valid(DefaultTags)

FieldValidate(f, v) == CASE f = "verbose" -> ValidateBool(v)
                         [] f = "timeout" -> ValidateInt(v)
                         [] f = "tags" -> ValidateTags(v)

\* the value of field f of Config(**kwargs)
Field(kwargs, f) ==
    IF f \in DOMAIN kwargs THEN FieldValidate(f, kwargs[f]) ELSE FieldDefault(f)

\* Config with extra="forbid"
ConfigForbidExtra(kwargs) ==
    LET bad == {f \in ConfigFields : ~Field(kwargs, f).ok}
        extra == DOMAIN kwargs \ ConfigFields
    IN  IF bad \cup extra # {} THEN RaisedAt("ValidationError", bad \cup extra)
        ELSE Returned([f \in ConfigFields |-> Field(kwargs, f).value])

\* Config(**kwargs)
Config(kwargs) ==
    LET bad == {f \in ConfigFields : ~Field(kwargs, f).ok} IN
    IF bad # {} THEN RaisedAt("ValidationError", bad)
    ELSE Returned([f \in ConfigFields |-> Field(kwargs, f).value])

\* Config(**config_data): ** needs a mapping
NewConfig(data) ==
    IF data.t # "dict" THEN Raised("TypeError") ELSE Config(data.m)

---------------------------------------------------------------------------
(* config.py: load_config *)

\* merged.get("general", {})
GetGeneral(m) == IF "general" \in DOMAIN m THEN m["general"] ELSE PyDict(EmptyDict)

\* load_config up to the CLI overrides: the flat mapping handed to Config
ResolveData(df, lf, env, cli) ==
    LET defaults == load_toml(df)
        local == load_toml(lf)
    IN  IF defaults.kind = "raise" THEN defaults
        ELSE IF local.kind = "raise" THEN local
        ELSE LET config_data == GetGeneral(merge_dicts(defaults.value, local.value))
                 e == ApplyEnv(config_data, env)
             IN  IF e.kind = "raise" THEN e ELSE ApplyCli(e.value, cli)

load_config(df, lf, env, cli) ==
    LET data == ResolveData(df, lf, env, cli) IN
    IF data.kind = "raise" THEN data ELSE NewConfig(data.value)

---------------------------------------------------------------------------
(* The inputs of load_config that are explored *)

MaxTags == 1

Str_yes == <<"y", "e", "s">>
Str_YES == <<"Y", "E", "S">>
Str_abc == <<"a", "b", "c">>
Str_45 == <<"4", "5">>
Str_7 == <<" ", "7">>
Str_9 == <<"9">>
Str_empty == <<>>

\* all dicts with keys among those of choices, each key's value drawn from choices[key]
Dicts(choices) ==
    UNION {[D -> UNION {choices[k] : k \in D}] : D \in SUBSET DOMAIN choices}

DictsOf(choices) ==
    {d \in Dicts(choices) : \A k \in DOMAIN d : d[k] \in choices[k]}

\* [general] sections of config/default.toml
DefaultGenerals ==
    DictsOf([verbose |-> {PyBool(TRUE), PyStr(Str_yes)},
             timeout |-> {PyInt(45), PyStr(Str_abc)},
             color |-> {PyInt(1)}])

\* [general] sections of config/local.toml
LocalGenerals ==
    DictsOf([verbose |-> {PyBool(FALSE)},
             timeout |-> {PyInt(60), PyStr(Str_45)},
             tags |-> {PyList([n \in 1..len |-> PyStr(Str_abc)]) : len \in 1..MaxTags}])

DefaultFiles ==
    {NoFile, BadTomlFile, TomlFile([general |-> PyInt(5)]),
     TomlFile([other |-> PyDict([timeout |-> PyInt(1)])])}
    \cup {TomlFile([general |-> PyDict(g)]) : g \in DefaultGenerals}

LocalFiles ==
    {NoFile, TomlFile([general |-> PyStr(Str_abc)]),
     TomlFile([general |-> PyDict([timeout |-> PyDict([unit |-> PyInt(1)])])])}
    \cup {TomlFile([general |-> PyDict(g)]) : g \in LocalGenerals}

Environs ==
    DictsOf([x \in {"{PROJECT}_VERBOSE"} |-> {Str_YES, Str_empty}]
            @@ [x \in {"{PROJECT}_TIMEOUT"} |-> {Str_7, Str_abc}]
            @@ [x \in {"{PROJECT}_timeout"} |-> {Str_9}]
            @@ [x \in {"{PROJECT}_COLOR"} |-> {Str_abc}])

CliOverrides ==
    DictsOf([verbose |-> {PyNone, PyBool(TRUE), PyBool(FALSE)},
             timeout |-> {PyNone, PyInt(99)},
             color |-> {PyInt(1)}])

---------------------------------------------------------------------------
(* load_config called once on a config directory, an environment and a set *)
(* of keyword arguments                                                     *)

Idle == <<>>

Init ==
    /\ pc = "start"
    /\ defaultFile \in DefaultFiles
    /\ localFile \in LocalFiles
    /\ environ \in Environs
    /\ cli_overrides \in CliOverrides
    /\ outcome = NotCalled
    /\ base = Idle /\ override = Idle /\ merged = Idle
    /\ path = Idle /\ config = Idle /\ stdout = Idle /\ returned = NotCalled

LoadConfig ==
    /\ pc = "start"
    /\ outcome' = load_config(defaultFile, localFile, environ, cli_overrides)
    /\ pc' = "done"
    /\ UNCHANGED <<defaultFile, localFile, environ, cli_overrides,
                   base, override, merged, path, config, stdout, returned>>

Next == LoadConfig

Spec == Init /\ [][Next]_vars

---------------------------------------------------------------------------
(* Properties of load_config *)

Done == pc = "done"
Succeeded == Done /\ outcome.kind = "return"

\* the [general] table of a document, when the file holds one
HasGeneral(f) ==
    /\ f.exists /\ f.parses
    /\ "general" \in DOMAIN f.doc
    /\ f.doc["general"].t = "dict"
FileSupplies(f, k) == HasGeneral(f) /\ k \in DOMAIN f.doc["general"].m
FileValue(f, k) == f.doc["general"].m[k]

EnvName(k) == IF k = "verbose" THEN "{PROJECT}_VERBOSE" ELSE "{PROJECT}_TIMEOUT"
EnvSupplies(k) == EnvName(k) \in DOMAIN environ
EnvValue(k) ==
    IF k = "verbose" THEN PyBool(Lower(environ[EnvName(k)]) \in VerboseWords)
    ELSE PyInt(IntOf(environ[EnvName(k)]))

CliSupplies(k) == k \in DOMAIN cli_overrides /\ cli_overrides[k] # PyNone

BuiltIn(k) == IF k = "verbose" THEN PyBool(FALSE) ELSE PyInt(30)

\* the value of the highest-precedence layer that supplies k
HighestLayerValue(k) ==
    IF CliSupplies(k) THEN cli_overrides[k]
    ELSE IF EnvSupplies(k) THEN EnvValue(k)
    ELSE IF FileSupplies(localFile, k) THEN FileValue(localFile, k)
    ELSE IF FileSupplies(defaultFile, k) THEN FileValue(defaultFile, k)
    ELSE BuiltIn(k)

\* C1: whenever load_config succeeds, verbose and timeout of the returned
\* Config are the (validated) value of the highest-precedence layer that
\* supplies the key: built-in default < default.toml [general] <
\* local.toml [general] < environment variable < non-null CLI override.
C1_Precedence ==
    Succeeded =>
        \A k \in {"verbose", "timeout"} :
            outcome.value[k] = FieldValidate(k, HighestLayerValue(k)).value

\* every layer supplies timeout, and the CLI override wins
C1_Witness ==
    /\ Succeeded
    /\ CliSupplies("timeout") /\ EnvSupplies("timeout")
    /\ FileSupplies(localFile, "timeout") /\ FileSupplies(defaultFile, "timeout")
    /\ FileSupplies(localFile, "verbose") /\ FileSupplies(defaultFile, "verbose")
    /\ ~CliSupplies("verbose") /\ ~EnvSupplies("verbose")
    /\ outcome.value["timeout"] = 99
    /\ outcome.value["verbose"] = FALSE

\* cli_overrides without the keys passed as None
OmitNone(cli) == [k \in {j \in DOMAIN cli : cli[j] # PyNone} |-> cli[k]]

\* C2: passing a key as None gives the same outcome (the same Config or the
\* same failure) as omitting the key.
C2_NoneIsOmitted ==
    Done => outcome = load_config(defaultFile, localFile, environ,
                                  OmitNone(cli_overrides))

\* timeout=None is passed while local.toml supplies timeout, which survives
C2_Witness ==
    /\ Succeeded
    /\ "timeout" \in DOMAIN cli_overrides /\ cli_overrides["timeout"] = PyNone
    /\ ~EnvSupplies("timeout")
    /\ FileSupplies(localFile, "timeout")
    /\ outcome.value["timeout"] = 60

BadEnvTimeout ==
    /\ "{PROJECT}_TIMEOUT" \in DOMAIN environ
    /\ ~IsIntLiteral(environ["{PROJECT}_TIMEOUT"])

Parses(f) == ~f.exists \/ f.parses

\* C4 as stated: a non-integer {PROJECT}_TIMEOUT makes load_config fail
\* with a ConfigError.
C4_Original ==
    (Done /\ BadEnvTimeout) =>
        (outcome.kind = "raise" /\ outcome.error = "ConfigError")

\* C4 amended: a non-integer {PROJECT}_TIMEOUT always makes load_config
\* raise, never return a Config; the exception is the ValueError of int(),
\* unless an earlier step raised first (TOMLDecodeError for an unparsable
\* document, TypeError when [general] is not a table and {PROJECT}_VERBOSE
\* is set).
C4_BadTimeoutRaises ==
    (Done /\ BadEnvTimeout) =>
        /\ outcome.kind = "raise"
        /\ outcome.error \in {"ValueError", "TOMLDecodeError", "TypeError"}
        /\ outcome.error = "TOMLDecodeError"
              <=> (~Parses(defaultFile) \/ ~Parses(localFile))
        /\ outcome.error = "TypeError" => "{PROJECT}_VERBOSE" \in DOMAIN environ

\* the files and the CLI supply a timeout, the variable is "abc": ValueError
C4_Witness ==
    /\ Done /\ BadEnvTimeout
    /\ FileSupplies(defaultFile, "timeout") /\ FileSupplies(localFile, "timeout")
    /\ CliSupplies("timeout")
    /\ outcome = Raised("ValueError")

\* the flat mapping load_config hands to Config
Resolved == ResolveData(defaultFile, localFile, environ, cli_overrides)
ResolvedDict == Resolved.kind = "return" /\ Resolved.value.t = "dict"

NotOfFieldType(d, f) ==
    /\ f \in DOMAIN d
    /\ d[f].t # (IF f = "verbose" THEN "bool" ELSE "int")

\* what pydantic's lax mode reads as a bool, and as an int
ReadableAsBool(v) ==
    \/ v.t = "bool"
    \/ v.t = "int" /\ v.i \in {0, 1}
    \/ v.t = "str" /\ Lower(v.s) \in BoolTrueWords \cup BoolFalseWords
ReadableAsInt(v) ==
    \/ v.t \in {"int", "bool"}
    \/ v.t = "str" /\ IsIntLiteral(v.s)
Unreadable(d, f) ==
    /\ f \in DOMAIN d
    /\ IF f = "verbose" THEN ~ReadableAsBool(d[f]) ELSE ~ReadableAsInt(d[f])

UpperCased(env) ==
    IF "{PROJECT}_timeout" \in DOMAIN env /\ "{PROJECT}_TIMEOUT" \notin DOMAIN env
    THEN [n \in (DOMAIN env \ {"{PROJECT}_timeout"}) \cup {"{PROJECT}_TIMEOUT"} |->
            IF n = "{PROJECT}_TIMEOUT" THEN env["{PROJECT}_timeout"] ELSE env[n]]
    ELSE env

\* C6 as stated: a letter-case variant of the suffix ({PROJECT}_timeout)
\* overrides the key exactly as the upper-case name does.
C6_Original ==
    Done => outcome = load_config(defaultFile, localFile, UpperCased(environ),
                                  cli_overrides)

Recognized(env) ==
    [n \in DOMAIN env \cap {"{PROJECT}_VERBOSE", "{PROJECT}_TIMEOUT"} |-> env[n]]

\* C6 amended: only the exact upper-case names {PROJECT}_VERBOSE and
\* {PROJECT}_TIMEOUT override a key; every other variable with the prefix,
\* a letter-case variant such as {PROJECT}_timeout included, is ignored and
\* never causes an error.
C6_ExactNamesOnly ==
    Done => outcome = load_config(defaultFile, localFile, Recognized(environ),
                                  cli_overrides)

\* {PROJECT}_timeout=9 is set and the timeout of local.toml is returned
C6_Witness ==
    /\ Succeeded
    /\ "{PROJECT}_timeout" \in DOMAIN environ
    /\ "{PROJECT}_COLOR" \in DOMAIN environ
    /\ "{PROJECT}_TIMEOUT" \notin DOMAIN environ
    /\ ~CliSupplies("timeout")
    /\ FileSupplies(localFile, "timeout")
    /\ outcome.value["timeout"] = 60

\* C7: with {PROJECT}_VERBOSE set and no non-null CLI override for verbose,
\* the returned verbose is true iff the value, lower-cased, is one of
\* "1", "true", "yes".
C7_EnvVerbose ==
    (Succeeded /\ "{PROJECT}_VERBOSE" \in DOMAIN environ /\ ~CliSupplies("verbose")) =>
        (outcome.value["verbose"] = TRUE
            <=> Lower(environ["{PROJECT}_VERBOSE"])
                    \in {<<"1">>, <<"t", "r", "u", "e">>, <<"y", "e", "s">>})

\* YES gives true
C7_Witness ==
    /\ Succeeded
    /\ "{PROJECT}_VERBOSE" \in DOMAIN environ
    /\ environ["{PROJECT}_VERBOSE"] = Str_YES
    /\ ~CliSupplies("verbose")
    /\ FileSupplies(localFile, "verbose")
    /\ outcome.value["verbose"] = TRUE

\* the empty string gives false over a true of default.toml
C7_WitnessFalse ==
    /\ Succeeded
    /\ "{PROJECT}_VERBOSE" \in DOMAIN environ
    /\ environ["{PROJECT}_VERBOSE"] = Str_empty
    /\ ~CliSupplies("verbose")
    /\ ~FileSupplies(localFile, "verbose")
    /\ FileSupplies(defaultFile, "verbose")
    /\ FileValue(defaultFile, "verbose") = PyBool(TRUE)
    /\ outcome.value["verbose"] = FALSE

\* a document whose [general] table, if any, holds well-typed settings
WellTyped(d) ==
    /\ "verbose" \in DOMAIN d => d["verbose"].t = "bool"
    /\ "timeout" \in DOMAIN d => d["timeout"].t = "int"
    /\ "tags" \in DOMAIN d =>
          (d["tags"].t = "list" /\ \A n \in DOMAIN d["tags"].l : d["tags"].l[n].t = "str")
AbsentOrValid(f) ==
    \/ ~f.exists
    \/ /\ f.parses
       /\ "general" \in DOMAIN f.doc =>
             (f.doc["general"].t = "dict" /\ WellTyped(f.doc["general"].m))
ValidEnv ==
    "{PROJECT}_TIMEOUT" \in DOMAIN environ => IsIntLiteral(environ["{PROJECT}_TIMEOUT"])
ValidCli == WellTyped(OmitNone(cli_overrides))

NoOverrides ==
    /\ DOMAIN environ \cap {"{PROJECT}_VERBOSE", "{PROJECT}_TIMEOUT"} = {}
    /\ \A k \in DOMAIN cli_overrides : cli_overrides[k] = PyNone

\* C8: a missing document is never an error: load_toml gives the empty
\* mapping for a missing file, load_config succeeds whichever of the two
\* documents are missing (the rest of the input being valid), and with both
\* missing and no environment or CLI override it returns verbose=false,
\* timeout=30, tags=[].
C8_MissingDocuments ==
    /\ \A f \in {defaultFile, localFile} :
          ~f.exists => load_toml(f) = Returned(<<>>)
    /\ (Done /\ AbsentOrValid(defaultFile) /\ AbsentOrValid(localFile)
             /\ ValidEnv /\ ValidCli)
          => outcome.kind = "return"
    /\ (Done /\ ~defaultFile.exists /\ ~localFile.exists /\ NoOverrides)
          => outcome = Returned([verbose |-> FALSE, timeout |-> 30, tags |-> <<>>])

\* both documents are missing and the built-in defaults come back
C8_Witness ==
    /\ Done /\ ~defaultFile.exists /\ ~localFile.exists /\ NoOverrides
    /\ outcome = Returned([verbose |-> FALSE, timeout |-> 30, tags |-> <<>>])

\* default.toml is missing, local.toml is not, and load_config succeeds
C8_WitnessOneMissing ==
    /\ Succeeded /\ ~defaultFile.exists
    /\ FileSupplies(localFile, "tags")
    /\ outcome.value["tags"] # <<>>

OnlyFields(d) == [k \in DOMAIN d \cap {"verbose", "timeout", "tags"} |-> d[k]]

\* C10: a returned Config has a value for each of verbose, timeout and tags;
\* a key missing from the resolved mapping takes the built-in default
\* (false, 30, []); keys that are not fields of Config are ignored without
\* error and do not appear in the result.
C10_FullyPopulated ==
    (Done /\ ResolvedDict) =>
        LET d == Resolved.value.m IN
        /\ outcome = Config(OnlyFields(d))
        /\ outcome.kind = "return" =>
              /\ DOMAIN outcome.value = {"verbose", "timeout", "tags"}
              /\ outcome.value["verbose"] \in BOOLEAN
              /\ outcome.value["timeout"] \in Int
              /\ \A n \in DOMAIN outcome.value["tags"] :
                    outcome.value["tags"][n] = Str_abc
              /\ "verbose" \notin DOMAIN d => outcome.value["verbose"] = FALSE
              /\ "timeout" \notin DOMAIN d => outcome.value["timeout"] = 30
              /\ "tags" \notin DOMAIN d => outcome.value["tags"] = <<>>

\* an unknown key comes from default.toml and from the CLI, timeout and tags
\* come from nowhere
C10_Witness ==
    /\ Succeeded /\ ResolvedDict
    /\ FileSupplies(defaultFile, "color") /\ CliSupplies("color")
    /\ DOMAIN Resolved.value.m = {"color", "verbose"}
    /\ outcome.value["timeout"] = 30 /\ outcome.value["tags"] = <<>>

---------------------------------------------------------------------------
(* merge_dicts called once on two nested mappings *)

MaxLeaf == 3

\* the keys a dict may hold at each nesting level
LevelKeys == <<{"a"}, {"x", "y"}, {"z"}>>

MergeLeaves == {PyInt(n) : n \in 1..MaxLeaf} \cup {PyList(<<PyInt(1), PyInt(2)>>)}

RECURSIVE DictsAt(_)
ValuesAt(level) ==
    MergeLeaves \cup (IF level > Len(LevelKeys) THEN {}
                      ELSE {PyDict(d) : d \in DictsAt(level)})
DictsAt(level) ==
    UNION {[D -> ValuesAt(level + 1)] : D \in SUBSET LevelKeys[level]}

InitMerge ==
    /\ pc = "start"
    /\ base \in DictsAt(1)
    /\ override \in DictsAt(1)
    /\ merged = Idle
    /\ defaultFile = Idle /\ localFile = Idle /\ environ = Idle
    /\ cli_overrides = Idle /\ outcome = NotCalled
    /\ path = Idle /\ config = Idle /\ stdout = Idle /\ returned = NotCalled

MergeDicts ==
    /\ pc = "start"
    /\ merged' = merge_dicts(base, override)
    /\ pc' = "done"
    /\ UNCHANGED <<defaultFile, localFile, environ, cli_overrides, outcome,
                   base, override, path, config, stdout, returned>>

NextMerge == MergeDicts

SpecMerge == InitMerge /\ [][NextMerge]_vars

RECURSIVE IsMergeOf(_, _, _)
\* r is the deep merge of o over b, stated key by key
IsMergeOf(r, b, o) ==
    /\ DOMAIN r = DOMAIN b \cup DOMAIN o
    /\ \A k \in DOMAIN r :
          IF k \in DOMAIN b /\ k \in DOMAIN o /\ b[k].t = "dict" /\ o[k].t = "dict"
          THEN r[k].t = "dict" /\ IsMergeOf(r[k].m, b[k].m, o[k].m)
          ELSE IF k \in DOMAIN o THEN r[k] = o[k]
          ELSE r[k] = b[k]

Example_base == [a |-> PyDict([x |-> PyInt(1), y |-> PyInt(2)])]
Example_override == [a |-> PyDict([y |-> PyInt(3)])]
Example_merged == [a |-> PyDict([x |-> PyInt(1), y |-> PyInt(3)])]

\* C3: merge_dicts(base, override) holds exactly the union of the keys; a key
\* with a mapping on both sides holds their recursive merge, a key of base
\* alone keeps its value, any other key holds the override's value whole.
\* {a:{x:1,y:2}} with {a:{y:3}} gives {a:{x:1,y:3}}; {a:1} with {a:[1,2]}
\* gives {a:[1,2]}.
C3_DeepMerge ==
    pc = "done" =>
        /\ IsMergeOf(merged, base, override)
        /\ (base = Example_base /\ override = Example_override)
              => merged = Example_merged
        /\ (base = [a |-> PyInt(1)]
              /\ override = [a |-> PyList(<<PyInt(1), PyInt(2)>>)])
              => merged = [a |-> PyList(<<PyInt(1), PyInt(2)>>)]

\* the nested example of the specification
C3_Witness ==
    /\ pc = "done"
    /\ base = Example_base /\ override = Example_override
    /\ merged = Example_merged

\* a list replaces a scalar three levels down, beside a key only base has
C3_WitnessDeep ==
    /\ pc = "done"
    /\ base = [a |-> PyDict([x |-> PyDict([z |-> PyInt(1)]), y |-> PyInt(2)])]
    /\ override = [a |-> PyDict([x |-> PyDict([z |-> PyList(<<PyInt(1), PyInt(2)>>)])])]
    /\ merged = [a |-> PyDict([x |-> PyDict([z |-> PyList(<<PyInt(1), PyInt(2)>>)]),
                               y |-> PyInt(2)])]

---------------------------------------------------------------------------
(* core.py: process_file *)

\* a path names nothing, a directory, or a regular file holding bytes
Missing == [kind |-> "missing"]
Directory == [kind |-> "dir"]
RegularFile(bytes) == [kind |-> "file", bytes |-> bytes]

\* path.exists()
Exists(p) == p.kind # "missing"

\* the bytes the text codec (UTF-8) rejects
Undecodable(bytes) == \E n \in DOMAIN bytes : bytes[n] = "0xFF"

\* text read with newline="": nothing is translated
ReadVerbatim(text) == text

RECURSIVE UniversalNewlines(_)
\* text mode with newline=None: "\r\n" and "\r" are read as "\n"
UniversalNewlines(text) ==
    IF text = <<>> THEN <<>>
    ELSE IF Head(text) = "\r"
         THEN IF Len(text) > 1 /\ text[2] = "\n"
              THEN <<"\n">> \o UniversalNewlines(SubSeq(text, 3, Len(text)))
              ELSE <<"\n">> \o UniversalNewlines(Tail(text))
         ELSE <<Head(text)>> \o UniversalNewlines(Tail(text))

\* path.read_text() of an existing path
read_text(p) ==
    IF p.kind = "dir" THEN Raised("IsADirectoryError")
    ELSE IF Undecodable(p.bytes) THEN Raised("UnicodeDecodeError")
    ELSE Returned(UniversalNewlines(p.bytes))

\* print(f"Processing {path} ({len(content)} bytes)")
ProcessingLine(content) == [text |-> "Processing", size |-> Len(content)]

\* what process_file returns or raises, and what it prints
process_file(p, c) ==
    IF ~Exists(p) THEN [result |-> Raised("FileNotFoundError"), printed |-> <<>>]
    ELSE LET content == read_text(p) IN
         IF content.kind = "raise" THEN [result |-> content, printed |-> <<>>]
         ELSE [result |-> content,
               printed |-> IF c["verbose"] THEN <<ProcessingLine(content.value)>>
                           ELSE <<>>]

MaxLen == 3

Bytes == {"a", "\r", "\n", "0xFF"}

RECURSIVE ByteStrings(_)
ByteStrings(len) ==
    IF len = 0 THEN {<<>>}
    ELSE {<<>>} \cup {<<b>> \o s : b \in Bytes, s \in ByteStrings(len - 1)}

Paths == {Missing, Directory} \cup {RegularFile(bytes) : bytes \in ByteStrings(MaxLen)}

Configs == {[verbose |-> v, timeout |-> DefaultTimeout, tags |-> DefaultTags] :
               v \in BOOLEAN}

InitFile ==
    /\ pc = "start"
    /\ path \in Paths
    /\ config \in Configs
    /\ stdout = <<>>
    /\ returned = NotCalled
    /\ defaultFile = Idle /\ localFile = Idle /\ environ = Idle
    /\ cli_overrides = Idle /\ outcome = NotCalled
    /\ base = Idle /\ override = Idle /\ merged = Idle

ProcessFile ==
    /\ pc = "start"
    /\ returned' = process_file(path, config).result
    /\ stdout' = stdout \o process_file(path, config).printed
    /\ pc' = "done"
    /\ UNCHANGED <<defaultFile, localFile, environ, cli_overrides, outcome,
                   base, override, merged, path, config>>

NextFile == ProcessFile

SpecFile == InitFile /\ [][NextFile]_vars

---------------------------------------------------------------------------
(* Properties of process_file *)

OtherVerbose(c) == [c EXCEPT !["verbose"] = ~c["verbose"]]

\* C9 as stated (the parts about the result): process_file fails with
\* FileNotFoundError iff the path does not exist; otherwise it returns the
\* content of the file unmodified, the same whether verbose is true or false.
C9_Original ==
    pc = "done" =>
        /\ returned = Raised("FileNotFoundError") <=> path.kind = "missing"
        /\ path.kind # "missing" =>
              /\ returned.kind = "return"
              /\ path.kind = "file" => returned.value = path.bytes
        /\ returned = process_file(path, OtherVerbose(config)).result

\* the positions of text that survive newline translation: all but a "\n"
\* that follows a "\r"
Kept(text) ==
    {i \in DOMAIN text : ~(text[i] = "\n" /\ i > 1 /\ text[i - 1] = "\r")}
NthKept(text, j) ==
    CHOOSE i \in Kept(text) : Cardinality({h \in Kept(text) : h < i}) = j - 1
IsNewlineNormalised(r, text) ==
    /\ Len(r) = Cardinality(Kept(text))
    /\ \A j \in DOMAIN r :
          r[j] = (IF text[NthKept(text, j)] = "\r" THEN "\n"
                  ELSE text[NthKept(text, j)])

C9_Result ==
    pc = "done" =>
        /\ returned = Raised("FileNotFoundError") <=> path.kind = "missing"
        /\ path.kind = "dir" => returned = Raised("IsADirectoryError")
        /\ (path.kind = "file" /\ Undecodable(path.bytes))
              => returned = Raised("UnicodeDecodeError")
        /\ (path.kind = "file" /\ ~Undecodable(path.bytes)) =>
              /\ returned.kind = "return"
              /\ IsNewlineNormalised(returned.value, path.bytes)
              /\ (\A n \in DOMAIN path.bytes : path.bytes[n] # "\r")
                    => returned.value = path.bytes
        /\ returned = process_file(path, OtherVerbose(config)).result
        /\ stdout = (IF config["verbose"] /\ returned.kind = "return"
                     THEN <<[text |-> "Processing", size |-> Len(returned.value)]>>
                     ELSE <<>>)

\* C9 amended: process_file fails with FileNotFoundError iff the path does
\* not exist; for a regular file whose bytes decode it returns the text with
\* every "\r\n" and lone "\r" read as "\n" (unmodified when the file holds
\* no "\r"); a directory raises IsADirectoryError and undecodable bytes
\* UnicodeDecodeError; the result is the same whether verbose is true or
\* false, verbose adding only one "Processing" line; the file and the Config
\* are left unchanged.
C9_ProcessFile ==
    /\ []C9_Result
    /\ [][path' = path /\ config' = config]_vars

\* a file holding "a\r\n" is read verbosely as "a\n"
C9_Witness ==
    /\ pc = "done"
    /\ path = RegularFile(<<"a", "\r", "\n">>)
    /\ config["verbose"]
    /\ returned = Returned(<<"a", "\n">>)
    /\ stdout = <<[text |-> "Processing", size |-> 2]>>

====
